---- MODULE Spec2Model ----
(***************************************************************************)
(* excel-image-transformer: ExcelImageResolver (image locations of a       *)
(* spreadsheet package) and Excel.transformImagesToStr (rewriting the      *)
(* cells the images are anchored to).                                      *)
(*                                                                         *)
(* A package is the value of `wb`: the sheet names XLSX read, the sheet    *)
(* list of xl/workbook.xml, and the parts under xl/worksheets,             *)
(* xl/worksheets/_rels, xl/drawings and xl/drawings/_rels.  A part that is *)
(* not in the package is not in the DOMAIN of its table.  A drawing target *)
(* "../drawings/drawing<k>.xml" is the number k.                           *)
(***************************************************************************)
EXTENDS Integers, Sequences, FiniteSets, TLC

VARIABLES wb, Sheets, pc, error, sheetMap, rIdx, metadatasMap, mapKeys,
          located, keys, kIdx, data, lIdx, calls, pending

vars == <<wb, Sheets, pc, error, sheetMap, rIdx, metadatasMap, mapKeys,
          located, keys, kIdx, data, lIdx, calls, pending>>

(***************************************************************************)
(* Bounds of the checked packages.                                         *)
(***************************************************************************)
MaxSheets == 2
MaxAnchors == 3
MaxImages == 3

EmptyFn == [x \in {} |-> x]

Cell(r, c) == [row |-> r, col |-> c]

\* anchor["xdr:to"] of an anchor element that has no xdr:to child
NoCell == Cell(-1, -1)

Range(s) == {s[i] : i \in 1..Len(s)}

RECURSIVE SeqsUpTo(_, _)
SeqsUpTo(S, n) ==
  IF n = 0 THEN {<<>>}
  ELSE LET shorter == SeqsUpTo(S, n - 1)
       IN shorter \cup {Append(s, x) : s \in {t \in shorter : Len(t) = n - 1}, x \in S}

Injective(s) == \A i, j \in 1..Len(s) : i # j => s[i] # s[j]

(***************************************************************************)
(* _xml2Obj: xml-js in compact mode keeps the children of a node under     *)
(* their element name.  No child of that name: no key (undefined).  One    *)
(* child: the child itself, unless the name is in alwaysArray.  Otherwise  *)
(* an array of the children in document order.                             *)
(***************************************************************************)
alwaysArray == {"xdr:twoCellAnchor", "Relationship", "sheet"}

Undefined == [tag |-> "undefined", items |-> <<>>]

Xml2ObjChildren(name, elems) ==
  IF elems = <<>> THEN Undefined
  ELSE IF name \in alwaysArray \/ Len(elems) > 1
       THEN [tag |-> "array", items |-> elems]
       ELSE [tag |-> "object", items |-> elems]

IsArray(v) == v.tag = "array"

\* `x as Array<any> || []`
OrEmptyArray(v) == IF v.tag = "undefined" THEN [tag |-> "array", items |-> <<>>] ELSE v

(***************************************************************************)
(* Results of the resolver's steps: a value or a thrown error.             *)
(***************************************************************************)
Ok(v) == [ok |-> TRUE, val |-> v, err |-> ""]
Err(e) == [ok |-> FALSE, val |-> <<>>, err |-> e]

TypeError == "TypeError"
SheetNotFound == "sheet not found"
ImageAnchorNotFound == "image anchor not found"
CallbackRejected == "callback rejected"

(***************************************************************************)
(* _resolveSheetMap: name -> {name, id} from the sheet list of             *)
(* xl/workbook.xml; new Map(pairs) keeps the last pair of a name.          *)
(***************************************************************************)
RECURSIVE MapOfSheets(_, _)
MapOfSheets(sheets, map) ==
  IF sheets = <<>> THEN map
  ELSE LET s == Head(sheets)
       IN MapOfSheets(Tail(sheets), (s.name :> [name |-> s.name, id |-> s.sheetId]) @@ map)

ResolveSheetMap(w) ==
  LET sheet == Xml2ObjChildren("sheet", w.sheets)
  IN IF IsArray(sheet) THEN Ok(MapOfSheets(sheet.items, EmptyFn)) ELSE Err(TypeError)

(***************************************************************************)
(* _resolveDrawing.  tag: "null" (return null), "error" (a throw), "ok".   *)
(* target is the drawing the sheet's relationship led to (0: none);        *)
(* hasXml and hasRels tell whether the two parts parsed to an object or    *)
(* to null.                                                                *)
(***************************************************************************)
DrawingNull == [tag |-> "null", target |-> 0, hasXml |-> FALSE, hasRels |-> FALSE]
DrawingThrow == [tag |-> "error", target |-> 0, hasXml |-> FALSE, hasRels |-> FALSE]

\* a JavaScript string used as a condition
Truthy(str) == str # ""

\* relationships.find(r => { return r.Id = drawingRelId; }): the callback
\* assigns, and its value is the assigned string
FindPredicate(r, drawingRelId) == Truthy(drawingRelId)

RECURSIVE Find(_, _)
Find(relationships, drawingRelId) ==
  IF relationships = <<>> THEN <<>>
  ELSE IF FindPredicate(Head(relationships), drawingRelId)
       THEN <<Head(relationships)>>
       ELSE Find(Tail(relationships), drawingRelId)

\* without `if (!sheetXmlObj.worksheet.drawing) return null`: reading
\* ['r:id'] of the missing drawing element throws
ResolveDrawing_NoEarlyReturn(w, sheetId) ==
  IF sheetId \notin DOMAIN w.worksheets THEN DrawingThrow
  ELSE IF ~w.worksheets[sheetId].hasDrawing THEN DrawingThrow
  ELSE IF sheetId \notin DOMAIN w.sheetRels THEN DrawingNull
  ELSE LET relationships == Xml2ObjChildren("Relationship", w.sheetRels[sheetId])
           drawingRelId == w.worksheets[sheetId].rid
       IN IF ~IsArray(relationships) THEN DrawingThrow
          ELSE LET relationshipOfDrawing == Find(relationships.items, drawingRelId)
               IN IF relationshipOfDrawing = <<>> THEN DrawingNull
                  ELSE LET drawingTarget == relationshipOfDrawing[1].Target
                       IN [tag |-> "ok", target |-> drawingTarget,
                           hasXml |-> drawingTarget \in DOMAIN w.drawings,
                           hasRels |-> drawingTarget \in DOMAIN w.drawingRels]

ResolveDrawing(w, sheetId) ==
  IF sheetId \notin DOMAIN w.worksheets THEN DrawingThrow
  ELSE IF ~w.worksheets[sheetId].hasDrawing THEN DrawingNull
  ELSE IF sheetId \notin DOMAIN w.sheetRels THEN DrawingNull
  ELSE LET relationships == Xml2ObjChildren("Relationship", w.sheetRels[sheetId])
           drawingRelId == w.worksheets[sheetId].rid
       IN IF ~IsArray(relationships) THEN DrawingThrow
          ELSE LET relationshipOfDrawing == Find(relationships.items, drawingRelId)
               IN IF relationshipOfDrawing = <<>> THEN DrawingNull
                  ELSE LET drawingTarget == relationshipOfDrawing[1].Target
                       IN [tag |-> "ok", target |-> drawingTarget,
                           hasXml |-> drawingTarget \in DOMAIN w.drawings,
                           hasRels |-> drawingTarget \in DOMAIN w.drawingRels]

(***************************************************************************)
(* _resolveSheetImages.  An anchor element of a drawing is                 *)
(* [kind, embed, from, to]: its element name, the r:embed of its picture,  *)
(* its xdr:from and its xdr:to (NoCell when it has no xdr:to child).       *)
(***************************************************************************)
OneCell == "xdr:oneCellAnchor"
TwoCell == "xdr:twoCellAnchor"

ElementsNamed(decl, name) == SelectSeq(decl, LAMBDA a : a.kind = name)

\* { from, to } of one anchor: to is read from xdr:from when xdr:to is missing
ImageAnchor(anchor) ==
  LET isOneCellAnchors == anchor.to = NoCell
  IN [from |-> anchor.from,
      to |-> IF isOneCellAnchors THEN anchor.from ELSE anchor.to]

\* imageAnchors.forEach: push the anchor onto the list of its relationship id
RECURSIVE ImageAnchorsMap(_, _)
ImageAnchorsMap(imageAnchors, map) ==
  IF imageAnchors = <<>> THEN map
  ELSE LET anchor == Head(imageAnchors)
           id == anchor.embed
           entity == IF id \in DOMAIN map THEN map[id] ELSE <<>>
       IN ImageAnchorsMap(Tail(imageAnchors),
                          (id :> Append(entity, ImageAnchor(anchor))) @@ map)

\* _parseMetaImageToFile: the File of xl/media/<filename>, or null
ParseMetaImageToFile(w, target) == IF target \in w.media THEN target ELSE "null"

\* relationships.flatMap: every anchor of every relationship, or the throw
RECURSIVE FlatMapRelationships(_, _, _, _)
FlatMapRelationships(w, relationships, map, acc) ==
  IF relationships = <<>> THEN Ok(acc)
  ELSE LET r == Head(relationships)
           file == ParseMetaImageToFile(w, r.Target)
       IN IF r.Id \notin DOMAIN map THEN Err(ImageAnchorNotFound)
          ELSE FlatMapRelationships(w, Tail(relationships), map,
                 acc \o [i \in 1..Len(map[r.Id]) |->
                          [file |-> file, from |-> map[r.Id][i].from,
                           to |-> map[r.Id][i].to]])

\* twoCellAnchors.concat(oneCellAnchors) instead
ConcatAnchors_TwoCellFirst(oneCellAnchors, twoCellAnchors) ==
  twoCellAnchors.items \o oneCellAnchors.items

\* oneCellAnchors.concat(twoCellAnchors)
ConcatAnchors(oneCellAnchors, twoCellAnchors) ==
  oneCellAnchors.items \o twoCellAnchors.items

ResolveSheetImages(w, sheetId) ==
  LET drawingObj == ResolveDrawing(w, sheetId)
  IN IF drawingObj.tag = "error" THEN Err(TypeError)
     ELSE IF drawingObj.tag = "null" THEN Ok(<<>>)
     ELSE IF ~drawingObj.hasXml THEN Err(TypeError)
     ELSE LET decl == w.drawings[drawingObj.target]
              twoCellAnchors == OrEmptyArray(Xml2ObjChildren(TwoCell, ElementsNamed(decl, TwoCell)))
              oneCellAnchors == OrEmptyArray(Xml2ObjChildren(OneCell, ElementsNamed(decl, OneCell)))
          IN IF ~IsArray(oneCellAnchors) THEN Err(TypeError)
             ELSE LET imageAnchors == ConcatAnchors(oneCellAnchors, twoCellAnchors)
                      imageAnchorsMap == ImageAnchorsMap(imageAnchors, EmptyFn)
                  IN IF ~drawingObj.hasRels THEN Err(TypeError)
                     ELSE LET relationships ==
                                Xml2ObjChildren("Relationship", w.drawingRels[drawingObj.target])
                          IN IF ~IsArray(relationships) THEN Err(TypeError)
                             ELSE FlatMapRelationships(w, relationships.items,
                                                       imageAnchorsMap, <<>>)

\* the drawing _resolveSheetImages read for the sheet (0: none)
LocatedDrawing(w, sheetId) == ResolveDrawing(w, sheetId).target

(***************************************************************************)
(* _resolveAllSheetImages keeps the lists in a plain object; for...in of   *)
(* Excel.transformImagesToStr visits its keys as JavaScript orders them:   *)
(* the keys that are array indices in ascending numeric order, then the    *)
(* other keys in insertion order.                                          *)
(***************************************************************************)
Names == {"1", "2", "Data"}

\* the sheet names that are canonical array indices, ascending
IndexNames == <<"1", "2">>

ForInKeys(inserted) ==
  SelectSeq(IndexNames, LAMBDA n : n \in Range(inserted))
    \o SelectSeq(inserted, LAMBDA n : n \notin Range(IndexNames))

(***************************************************************************)
(* The cell grid of a sheet as getDataBySheetName returns it and setData   *)
(* takes it: rows by index, cells by index, both possibly missing.         *)
(***************************************************************************)
InitialGrid ==
  (0 :> ((0 :> "A1") @@ (1 :> "B1"))) @@ (1 :> ((0 :> "A2") @@ (1 :> "B2")))

NoValue == "undefined"

CellAt(grid, c) ==
  IF c.row \in DOMAIN grid /\ c.col \in DOMAIN grid[c.row]
  THEN grid[c.row][c.col] ELSE NoValue

CellsOf(grid) == UNION {{Cell(r, c) : c \in DOMAIN grid[r]} : r \in DOMAIN grid}

\* sheet_to_json builds a new array of rows on every call
GetDataBySheetName(sheets, sheetName) == sheets[sheetName]

\* data[row] = data[row] || []; data[row][col] = str
WriteCell(grid, cell, str) ==
  LET row == IF cell.row \in DOMAIN grid THEN grid[cell.row] ELSE EmptyFn
  IN (cell.row :> ((cell.col :> str) @@ row)) @@ grid

\* writing at location.to instead
CellOf_To(location) == location.to

\* the cell the string of a location is written to
CellOf(location) == location.from

\* rewriting the sheet itself at every location instead
SheetsDuringRewrite_WriteThrough(sheets, sheetName, grid) ==
  [sheets EXCEPT ![sheetName] = grid]

\* the strings go into data, the array getDataBySheetName built: the sheet
\* is as it was until setData
SheetsDuringRewrite(sheets, sheetName, grid) == sheets

\* setData, after _assertSheetExist
SetData(sheets, sheetName, grid) == [sheets EXCEPT ![sheetName] = grid]

(***************************************************************************)
(* The packages checked.                                                   *)
(***************************************************************************)
RelIds == {"rId1", "rId2"}

\* the media part a relationship of a drawing points to
MediaOf(id) == IF id = "rId1" THEN "image1.png" ELSE "image2.png"

Media == {MediaOf(id) : id \in RelIds}

Strs == {"u1", "u2"}

OneCellAnchors ==
  {[kind |-> OneCell, embed |-> id, from |-> f, to |-> NoCell] :
     id \in RelIds, f \in {Cell(0, 0), Cell(2, 1)}}

TwoCellAnchors ==
  {[kind |-> TwoCell, embed |-> id, from |-> f, to |-> Cell(f.row + 1, f.col + 1)] :
     id \in RelIds, f \in {Cell(0, 0), Cell(2, 1)}}

AnchorPool == OneCellAnchors \cup TwoCellAnchors

\* relationship tables of a drawing: ids are unique within a part
DrawingRelTables ==
  {[i \in 1..Len(ids) |-> [Id |-> ids[i], Target |-> MediaOf(ids[i])]] :
     ids \in {t \in SeqsUpTo(RelIds, Cardinality(RelIds)) : Injective(t)}}

\* relationship tables of a worksheet, over the drawings 1 and 2
SheetRelTables ==
  {t \in SeqsUpTo([Id : RelIds, Target : {1, 2}], Cardinality(RelIds)) :
     Injective([i \in 1..Len(t) |-> t[i].Id])}

NoDrawingSheet ==
  [ws |-> [hasDrawing |-> FALSE, rid |-> ""], linked |-> FALSE,
   decl |-> <<>>, rels |-> <<>>]

LinkedSheet(decl, rels) ==
  [ws |-> [hasDrawing |-> TRUE, rid |-> "rId1"], linked |-> TRUE,
   decl |-> decl, rels |-> rels]

\* sheet i has sheetId i; its drawing, when it has one, is drawing i
Workbook(names, cfgs) ==
  LET n == Len(names)
      withDrawing == {i \in 1..n : cfgs[i].linked}
  IN [SheetNames |-> names,
      sheets |-> [i \in 1..n |-> [name |-> names[i], sheetId |-> i]],
      worksheets |-> [i \in 1..n |-> cfgs[i].ws],
      sheetRels |-> [i \in withDrawing |-> <<[Id |-> "rId1", Target |-> i]>>],
      drawings |-> [i \in withDrawing |-> cfgs[i].decl],
      drawingRels |-> [i \in withDrawing |-> cfgs[i].rels],
      media |-> Media]

\* one sheet, its drawing any list of anchors with any relationship table
DrawingWorkbooks ==
  {Workbook(<<"Data">>, <<LinkedSheet(decl, rels)>>) :
     decl \in SeqsUpTo(AnchorPool, MaxAnchors), rels \in DrawingRelTables}

\* up to MaxSheets sheets with MaxImages two-cell anchors of rId1 in all
TransformSheets(budget) ==
  {NoDrawingSheet} \cup
  {LinkedSheet(decl, <<[Id |-> "rId1", Target |-> MediaOf("rId1")]>>) :
     decl \in SeqsUpTo({a \in TwoCellAnchors : a.embed = "rId1"}, budget)}

RECURSIVE TransformCfgs(_, _)
TransformCfgs(n, budget) ==
  IF n = 0 THEN {<<>>}
  ELSE UNION {{<<c>> \o rest : rest \in TransformCfgs(n - 1, budget - Len(c.decl))} :
                c \in TransformSheets(budget)}

TransformWorkbooks ==
  UNION {{Workbook(names, cfgs) : cfgs \in TransformCfgs(Len(names), MaxImages)} :
           names \in {t \in SeqsUpTo(Names, MaxSheets) : t # <<>> /\ Injective(t)}}

\* one sheet and the drawings 1 and 2, every linking part present or not,
\* the sheet list of xl/workbook.xml naming the sheet or another one
LocateDecl(k) ==
  <<[kind |-> TwoCell, embed |-> "rId1",
     from |-> IF k = 1 THEN Cell(0, 0) ELSE Cell(2, 1),
     to |-> IF k = 1 THEN Cell(1, 1) ELSE Cell(3, 2)]>>

LocateWorkbooks ==
  {[SheetNames |-> <<"Data">>,
    sheets |-> <<[name |-> listed, sheetId |-> 1]>>,
    worksheets |-> <<ws>>,
    sheetRels |-> [i \in relsAt |-> table],
    drawings |-> [k \in xmlAt |-> LocateDecl(k)],
    drawingRels |-> [k \in drawingRelsAt |->
                      <<[Id |-> "rId1", Target |-> MediaOf("rId1")]>>],
    media |-> Media] :
     listed \in {"Data", "1"},
     ws \in {[hasDrawing |-> FALSE, rid |-> ""]} \cup
            {[hasDrawing |-> TRUE, rid |-> id] : id \in RelIds},
     relsAt \in SUBSET {1}, table \in SheetRelTables,
     xmlAt \in SUBSET {1, 2}, drawingRelsAt \in SUBSET {1, 2}}

(***************************************************************************)
(* State.                                                                  *)
(*   wb            the loaded package (Excel.workbook, read only)          *)
(*   Sheets        workbook.Sheets: the cell grid of every sheet           *)
(*   pc            where transformImagesToStr stands                       *)
(*   error         what it threw or rejected with                          *)
(*   sheetMap      ExcelImageResolver.sheetMap                             *)
(*   rIdx          the sheet _resolveAllSheetImages is at                  *)
(*   metadatasMap  its result so far, mapKeys its keys in insertion order  *)
(*   located       per resolved sheet, the drawing that was read           *)
(*   keys, kIdx    the sheets for...in visits, and the one it is at        *)
(*   data, lIdx    that sheet's grid, and the location the loop is at      *)
(*   calls         every callback invocation so far                        *)
(*   pending       the invocations whose promise is not settled            *)
(***************************************************************************)
Init ==
  /\ wb \in DrawingWorkbooks \cup TransformWorkbooks \cup LocateWorkbooks
  /\ Sheets = [n \in Range(wb.SheetNames) |-> InitialGrid]
  /\ pc = "loaded"
  /\ error = ""
  /\ sheetMap = EmptyFn
  /\ rIdx = 1
  /\ metadatasMap = EmptyFn
  /\ mapKeys = <<>>
  /\ located = EmptyFn
  /\ keys = <<>>
  /\ kIdx = 1
  /\ data = EmptyFn
  /\ lIdx = 1
  /\ calls = <<>>
  /\ pending = {}

Throw(e) == pc' = "failed" /\ error' = e

\* resolveImageLocations: await this._resolveSheetMap()
ResolveSheetMapStep ==
  /\ pc = "loaded"
  /\ LET r == ResolveSheetMap(wb)
     IN IF r.ok
        THEN sheetMap' = r.val /\ pc' = "resolving" /\ error' = error
        ELSE Throw(r.err) /\ sheetMap' = sheetMap
  /\ UNCHANGED <<wb, Sheets, rIdx, metadatasMap, mapKeys, located, keys, kIdx,
                 data, lIdx, calls, pending>>

\* one turn of the loop of _resolveAllSheetImages
ResolveNextSheet ==
  /\ pc = "resolving"
  /\ rIdx <= Len(wb.SheetNames)
  /\ LET sheetName == wb.SheetNames[rIdx]
     IN IF sheetName \notin DOMAIN sheetMap
        THEN Throw(SheetNotFound) /\ UNCHANGED <<rIdx, metadatasMap, mapKeys, located>>
        ELSE LET r == ResolveSheetImages(wb, sheetMap[sheetName].id)
             IN IF r.ok
                THEN /\ metadatasMap' = (sheetName :> r.val) @@ metadatasMap
                     /\ mapKeys' = IF sheetName \in Range(mapKeys) THEN mapKeys
                                   ELSE Append(mapKeys, sheetName)
                     /\ located' = (sheetName :> LocatedDrawing(wb, sheetMap[sheetName].id))
                                      @@ located
                     /\ rIdx' = rIdx + 1
                     /\ UNCHANGED <<pc, error>>
                ELSE Throw(r.err) /\ UNCHANGED <<rIdx, metadatasMap, mapKeys, located>>
  /\ UNCHANGED <<wb, Sheets, sheetMap, keys, kIdx, data, lIdx, calls, pending>>

\* _resolveAllSheetImages returns; transformImagesToStr starts for...in
ResolveReturn ==
  /\ pc = "resolving"
  /\ rIdx > Len(wb.SheetNames)
  /\ keys' = ForInKeys(mapKeys)
  /\ kIdx' = 1
  /\ pc' = "sheet"
  /\ UNCHANGED <<wb, Sheets, error, sheetMap, rIdx, metadatasMap, mapKeys, located,
                 data, lIdx, calls, pending>>

\* the head of the outer loop: locations and data of the next sheet
BeginSheet ==
  /\ pc = "sheet"
  /\ kIdx <= Len(keys)
  /\ data' = GetDataBySheetName(Sheets, keys[kIdx])
  /\ lIdx' = 1
  /\ pc' = "images"
  /\ UNCHANGED <<wb, Sheets, error, sheetMap, rIdx, metadatasMap, mapKeys, located,
                 keys, kIdx, calls, pending>>

\* cb(...) without await
CallbackAwaited_NotAwaited(inFlight) == TRUE

\* `await cb(...)`: the loop goes on only when the promise has settled
CallbackAwaited(inFlight) == inFlight = {}

\* cb(location.file, location.from)
InvokeCallback ==
  /\ pc = "images"
  /\ lIdx <= Len(metadatasMap[keys[kIdx]])
  /\ CallbackAwaited(pending)
  /\ LET location == metadatasMap[keys[kIdx]][lIdx]
     IN calls' = Append(calls, [sheet |-> keys[kIdx], file |-> location.file,
                                cell |-> location.from, at |-> CellOf(location),
                                status |-> "pending", str |-> ""])
  /\ pending' = pending \cup {Len(calls) + 1}
  /\ UNCHANGED <<wb, Sheets, pc, error, sheetMap, rIdx, metadatasMap, mapKeys,
                 located, keys, kIdx, data, lIdx>>

\* the promise resolves with str: the string goes into data
CallbackResolves ==
  /\ pc = "images"
  /\ \E i \in pending, str \in Strs :
       /\ calls' = [calls EXCEPT ![i].status = "resolved", ![i].str = str]
       /\ data' = WriteCell(data, calls[i].at, str)
       /\ pending' = pending \ {i}
  /\ Sheets' = SheetsDuringRewrite(Sheets, keys[kIdx], data')
  /\ lIdx' = lIdx + 1
  /\ UNCHANGED <<wb, pc, error, sheetMap, rIdx, metadatasMap, mapKeys,
                 located, keys, kIdx>>

\* the rejection caught inside the loop, which goes on to the next location
CallbackRejects_Swallowed ==
  /\ pc = "images"
  /\ \E i \in pending :
       /\ calls' = [calls EXCEPT ![i].status = "rejected"]
       /\ pending' = pending \ {i}
  /\ lIdx' = lIdx + 1
  /\ UNCHANGED <<wb, Sheets, pc, error, sheetMap, rIdx, metadatasMap, mapKeys,
                 located, keys, kIdx, data>>

\* the promise rejects: transformImagesToStr rejects with it
CallbackRejects ==
  /\ pc = "images"
  /\ \E i \in pending :
       /\ calls' = [calls EXCEPT ![i].status = "rejected"]
       /\ pending' = pending \ {i}
  /\ Throw(CallbackRejected)
  /\ UNCHANGED <<wb, Sheets, sheetMap, rIdx, metadatasMap, mapKeys, located, keys,
                 kIdx, data, lIdx>>

\* this.setData(sheetName, data), after the last location of the sheet
SetDataStep ==
  /\ pc = "images"
  /\ lIdx > Len(metadatasMap[keys[kIdx]])
  /\ pending = {}
  /\ Sheets' = SetData(Sheets, keys[kIdx], data)
  /\ kIdx' = kIdx + 1
  /\ pc' = "sheet"
  /\ UNCHANGED <<wb, error, sheetMap, rIdx, metadatasMap, mapKeys, located, keys,
                 data, lIdx, calls, pending>>

\* for...in is over: transformImagesToStr resolves
Finish ==
  /\ pc = "sheet"
  /\ kIdx > Len(keys)
  /\ pc' = "done"
  /\ UNCHANGED <<wb, Sheets, error, sheetMap, rIdx, metadatasMap, mapKeys, located,
                 keys, kIdx, data, lIdx, calls, pending>>

Next ==
  \/ ResolveSheetMapStep
  \/ ResolveNextSheet
  \/ ResolveReturn
  \/ BeginSheet
  \/ InvokeCallback
  \/ CallbackResolves
  \/ CallbackRejects
  \/ SetDataStep
  \/ Finish

Spec == Init /\ [][Next]_vars

(***************************************************************************)
(* What the claims speak of, read off the package and the history.         *)
(***************************************************************************)
SheetNamesSet == Range(wb.SheetNames)

CallsOf(name) == SelectSeq(calls, LAMBDA c : c.sheet = name)

\* the anchors of the drawing that was read for a resolved sheet
DeclOf(name) ==
  IF located[name] \in DOMAIN wb.drawings THEN wb.drawings[located[name]] ELSE <<>>

RelsOf(name) ==
  IF located[name] \in DOMAIN wb.drawingRels THEN wb.drawingRels[located[name]] ELSE <<>>

AnchorsOfId(decl, kind, id) == SelectSeq(decl, LAMBDA a : a.kind = kind /\ a.embed = id)

\* an anchor as a location: a one-cell anchor ends where it starts
AsLocation(file, a) ==
  [file |-> file, from |-> a.from, to |-> IF a.kind = OneCell THEN a.from ELSE a.to]

\* the relationship table in table order; under one entry the one-cell
\* anchors that reference it, then the two-cell anchors, in declaration order
RECURSIVE ByRelationship(_, _)
ByRelationship(rels, decl) ==
  IF rels = <<>> THEN <<>>
  ELSE LET r == Head(rels)
           mine == AnchorsOfId(decl, OneCell, r.Id) \o AnchorsOfId(decl, TwoCell, r.Id)
       IN [i \in 1..Len(mine) |-> AsLocation(r.Target, mine[i])]
            \o ByRelationship(Tail(rels), decl)

ExpectedLocations(name) == ByRelationship(RelsOf(name), DeclOf(name))

RelIdsOf(rels) == {rels[i].Id : i \in 1..Len(rels)}

\* every picture of the resolved sheet's drawing embeds a relationship of
\* the drawing's table
EveryAnchorHasRelationship(name) ==
  \A a \in Range(DeclOf(name)) : a.embed \in RelIdsOf(RelsOf(name))

Froms(locations) == [i \in 1..Len(locations) |-> locations[i].from]

Max(S) == CHOOSE m \in S : \A x \in S : x <= m

\* the calls of a sheet that resolved for a cell, and the string of the last
ResolvedAt(name, cell) ==
  {j \in 1..Len(CallsOf(name)) :
     CallsOf(name)[j].status = "resolved" /\ CallsOf(name)[j].cell = cell}

LastStr(name, cell) == CallsOf(name)[Max(ResolvedAt(name, cell))].str

ResolveCompleted ==
  pc \in {"sheet", "images", "done"} \/ (pc = "failed" /\ error = CallbackRejected)

\* resolution of sheet i returned (Returned) or threw (ThrewAt)
Returned(i) == pc # "loaded" /\ wb.SheetNames[i] \in DOMAIN sheetMap /\ i < rIdx

ThrewAt(i) ==
  /\ pc = "failed" /\ error # CallbackRejected
  /\ wb.SheetNames[i] \in DOMAIN sheetMap /\ i = rIdx

SheetIdAt(i) == sheetMap[wb.SheetNames[i]].id

(***************************************************************************)
(* C1 as stated: when transform has completed, the callback invocations of *)
(* every sheet, by their from coordinates, are the anchors of the sheet's  *)
(* drawing in drawing-declaration order.                                   *)
(***************************************************************************)
C1_DeclarationOrder ==
  pc = "done" =>
    \A name \in SheetNamesSet :
      EveryAnchorHasRelationship(name) =>
      [i \in 1..Len(CallsOf(name)) |-> CallsOf(name)[i].cell] = Froms(DeclOf(name))

(***************************************************************************)
(* C1 amended: when transform has completed, the callback has been invoked *)
(* exactly once per ImageLocation of every sheet, with the location's file *)
(* and from, in the order of the resolver's list: the entries of the       *)
(* drawing's relationship table in table order and, under one entry, the   *)
(* one-cell anchors that reference it followed by the two-cell anchors     *)
(* that reference it, each group in declaration order.                     *)
(***************************************************************************)
C1_ResolverOrder ==
  pc = "done" =>
    \A name \in SheetNamesSet :
      /\ Len(CallsOf(name)) = Len(metadatasMap[name])
      /\ \A i \in 1..Len(CallsOf(name)) :
           /\ CallsOf(name)[i].file = metadatasMap[name][i].file
           /\ CallsOf(name)[i].cell = metadatasMap[name][i].from
      /\ [i \in 1..Len(CallsOf(name)) |->
            [file |-> CallsOf(name)[i].file, from |-> CallsOf(name)[i].cell]]
           = [i \in 1..Len(ExpectedLocations(name)) |->
               [file |-> ExpectedLocations(name)[i].file,
                from |-> ExpectedLocations(name)[i].from]]

\* a completed transform of a drawing that mixes one-cell and two-cell
\* anchors and whose callbacks did not come in declaration order
C1_Witness ==
  /\ pc = "done"
  /\ \E name \in SheetNamesSet :
       /\ \E a, b \in Range(DeclOf(name)) : a.kind = OneCell /\ b.kind = TwoCell
       /\ Len(CallsOf(name)) = Len(DeclOf(name))
       /\ [i \in 1..Len(CallsOf(name)) |-> CallsOf(name)[i].cell] # Froms(DeclOf(name))

(***************************************************************************)
(* C2 as stated: after transform has completed, the cell at from of every  *)
(* ImageLocation holds the string the callback resolved for that location, *)
(* and every cell that is the from of no ImageLocation is unchanged.       *)
(***************************************************************************)
OtherCellsUnchanged(name) ==
  \A c \in CellsOf(Sheets[name]) \cup CellsOf(InitialGrid) :
    c \notin Range(Froms(metadatasMap[name])) =>
      CellAt(Sheets[name], c) = CellAt(InitialGrid, c)

C2_EveryLocationHoldsItsString ==
  pc = "done" =>
    \A name \in SheetNamesSet :
      /\ \A j \in 1..Len(metadatasMap[name]) :
           /\ j <= Len(CallsOf(name))
           /\ CellAt(Sheets[name], metadatasMap[name][j].from) = CallsOf(name)[j].str
      /\ OtherCellsUnchanged(name)

(***************************************************************************)
(* C2 amended: after transform has completed, the cell at from of every    *)
(* ImageLocation holds the string the callback resolved for the last       *)
(* ImageLocation of the sheet, in processing order, that has this from (a  *)
(* missing row being created), and every cell that is the from of no       *)
(* ImageLocation is unchanged, the cell at to included.                    *)
(***************************************************************************)
C2_LastStringAtFrom ==
  pc = "done" =>
    \A name \in SheetNamesSet :
      /\ \A j \in 1..Len(metadatasMap[name]) :
           LET from == metadatasMap[name][j].from
           IN /\ j <= Len(CallsOf(name))
              /\ CallsOf(name)[j].status = "resolved"
              /\ ResolvedAt(name, from) # {}
              /\ CellAt(Sheets[name], from) = LastStr(name, from)
              /\ CellAt(Sheets[name], from) \in Strs
      /\ OtherCellsUnchanged(name)

\* a completed transform that wrote into a row the grid did not have, for a
\* location whose to is another cell of the grid, and that wrote twice into
\* one cell
C2_Witness ==
  /\ pc = "done"
  /\ \E name \in SheetNamesSet :
       /\ \E j \in 1..Len(metadatasMap[name]) :
            /\ metadatasMap[name][j].from.row \notin DOMAIN InitialGrid
            /\ CellAt(Sheets[name], metadatasMap[name][j].from) \in Strs
       /\ \E j \in 1..Len(metadatasMap[name]) :
            /\ metadatasMap[name][j].to # metadatasMap[name][j].from
            /\ metadatasMap[name][j].to \in CellsOf(InitialGrid)
       /\ \E i, j \in 1..Len(metadatasMap[name]) :
            /\ i < j
            /\ metadatasMap[name][i].from = metadatasMap[name][j].from
            /\ CallsOf(name)[i].str # CallsOf(name)[j].str

(***************************************************************************)
(* C6: once a callback has rejected, transform has rejected with that      *)
(* rejection, the rejected invocation is the last one and no callback can  *)
(* be invoked any more; every sheet visited before the sheet of the        *)
(* rejected invocation holds its callback strings, and the grid of that    *)
(* sheet and of every sheet after it is as it was.                         *)
(***************************************************************************)
KeyIndex(name) == CHOOSE k \in 1..Len(keys) : keys[k] = name

HoldsItsStrings(name) ==
  \A j \in 1..Len(metadatasMap[name]) :
    LET from == metadatasMap[name][j].from
    IN /\ ResolvedAt(name, from) # {}
       /\ CellAt(Sheets[name], from) = LastStr(name, from)

InMemoryGrid(name) ==
  IF pc \in {"images", "failed"} /\ kIdx <= Len(keys) /\ keys[kIdx] = name
  THEN data ELSE Sheets[name]

HasWorksheet(i) ==
  wb.SheetNames[i] \in DOMAIN sheetMap /\ SheetIdAt(i) \in DOMAIN wb.worksheets

DeclaresNoDrawing(i) == HasWorksheet(i) /\ ~wb.worksheets[SheetIdAt(i)].hasDrawing

DeclaresDrawing(i) == HasWorksheet(i) /\ wb.worksheets[SheetIdAt(i)].hasDrawing

Attempted(i) == Returned(i) \/ ThrewAt(i)

\* the target of the relationship whose Id is the worksheet's r:id (0: none)
ExactTarget(id) ==
  LET table == wb.sheetRels[id]
      hits == {k \in 1..Len(table) : table[k].Id = wb.worksheets[id].rid}
  IN IF hits = {} THEN 0 ELSE table[CHOOSE k \in hits : \A h \in hits : k <= h].Target

LinkedPartsPresent(i) ==
  /\ SheetIdAt(i) \in DOMAIN wb.sheetRels
  /\ ExactTarget(SheetIdAt(i)) \in DOMAIN wb.drawings
  /\ ExactTarget(SheetIdAt(i)) \in DOMAIN wb.drawingRels

\* the worksheet's drawing relationship is the first of its table, and the
\* drawing and its relationship table are in the package
WellLinked(i) ==
  /\ DeclaresDrawing(i)
  /\ LinkedPartsPresent(i)
  /\ wb.sheetRels[SheetIdAt(i)][1].Id = wb.worksheets[SheetIdAt(i)].rid

DrawingAt(i) == wb.drawings[ExactTarget(SheetIdAt(i))]

DrawingRelsAt(i) == wb.drawingRels[ExactTarget(SheetIdAt(i))]

Embeds(decl) == {a.embed : a \in Range(decl)}

\* every picture embeds a relationship of the table, every relationship of
\* the table is embedded by a picture
ConsistentDrawing(i) ==
  DrawingRelsAt(i) # <<>> /\ Embeds(DrawingAt(i)) = RelIdsOf(DrawingRelsAt(i))

(***************************************************************************)
(* C8: resolution of a sheet whose worksheet part declares no drawing      *)
(* raises no error and leaves an empty list under the sheet's name, and    *)
(* when resolve has returned the list of every other sheet is the list of  *)
(* that sheet's own drawing.                                               *)
(***************************************************************************)
C8_NoDrawingGivesEmptyList ==
  \A i \in 1..Len(wb.SheetNames) :
    DeclaresNoDrawing(i) =>
      /\ ~ThrewAt(i)
      /\ Returned(i) =>
           /\ wb.SheetNames[i] \in DOMAIN metadatasMap
           /\ metadatasMap[wb.SheetNames[i]] = <<>>
      /\ ResolveCompleted =>
           \A m \in SheetNamesSet \ {wb.SheetNames[i]} :
             metadatasMap[m] = ExpectedLocations(m)

\* resolve has returned for a package whose first sheet has no drawing and
\* whose second sheet has images
C8_Witness ==
  /\ ResolveCompleted
  /\ Len(wb.SheetNames) >= 2
  /\ DeclaresNoDrawing(1)
  /\ metadatasMap[wb.SheetNames[1]] = <<>>
  /\ metadatasMap[wb.SheetNames[2]] # <<>>

(***************************************************************************)
(* C3 as stated: for a sheet whose drawing is linked and consistent, every *)
(* relationship of the drawing referenced by N >= 1 anchors has exactly N  *)
(* ImageLocations, all with the relationship's file, with the coordinates  *)
(* of its anchors in anchor-list order.                                    *)
(***************************************************************************)
C3_FanOut ==
  \A i \in 1..Len(wb.SheetNames) :
    (Attempted(i) /\ WellLinked(i) /\ ConsistentDrawing(i)) =>
      /\ Returned(i)
      /\ \A k \in 1..Len(DrawingRelsAt(i)) :
           LET r == DrawingRelsAt(i)[k]
               anchors == AnchorsOfId(DrawingAt(i), OneCell, r.Id)
                            \o AnchorsOfId(DrawingAt(i), TwoCell, r.Id)
               mine == SelectSeq(metadatasMap[wb.SheetNames[i]],
                                 LAMBDA l : l.file = r.Target)
           IN Len(anchors) >= 1 =>
                mine = [j \in 1..Len(anchors) |-> AsLocation(r.Target, anchors[j])]

(***************************************************************************)
(* C4 as stated: for a sheet whose drawing is linked and consistent,       *)
(* whatever the number of its one-cell and two-cell anchors, resolve       *)
(* returns a list with, for every one-cell anchor, a location whose to is  *)
(* its from, and for every two-cell anchor a location with the anchor's    *)
(* from and to.                                                            *)
(***************************************************************************)
C4_AnchorsReadAsLists ==
  \A i \in 1..Len(wb.SheetNames) :
    (Attempted(i) /\ WellLinked(i) /\ ConsistentDrawing(i)) =>
      /\ Returned(i)
      /\ \A a \in Range(DrawingAt(i)) :
           \E j \in 1..Len(metadatasMap[wb.SheetNames[i]]) :
             LET l == metadatasMap[wb.SheetNames[i]][j]
             IN /\ l.from = a.from
                /\ l.to = IF a.kind = OneCell THEN a.from ELSE a.to

(***************************************************************************)
(* C5 as stated: when an entry of the relationship table of a sheet's      *)
(* linked drawing is referenced by no anchor, resolution of the sheet      *)
(* fails with the image-anchor-not-found error.                            *)
(***************************************************************************)
C5_UnreferencedRelationshipFails ==
  \A i \in 1..Len(wb.SheetNames) :
    (Attempted(i) /\ WellLinked(i)
       /\ RelIdsOf(DrawingRelsAt(i)) \ Embeds(DrawingAt(i)) # {}) =>
      ThrewAt(i) /\ error = ImageAnchorNotFound

(***************************************************************************)
(* C9 as stated: the drawing read for a sheet that declares one and has a  *)
(* relationship table is the target of the relationship whose Id equals    *)
(* the worksheet's drawing relationship id, and none when no relationship  *)
(* has that Id.                                                            *)
(***************************************************************************)
C9_ExactRelationship ==
  \A i \in 1..Len(wb.SheetNames) :
    (Returned(i) /\ DeclaresDrawing(i) /\ SheetIdAt(i) \in DOMAIN wb.sheetRels) =>
      located[wb.SheetNames[i]] = ExactTarget(SheetIdAt(i))

(***************************************************************************)
(* C10 as stated: when a worksheet declares a drawing and a linked part is *)
(* missing (its relationship table, the matching relationship, the drawing *)
(* or the drawing's relationship table), resolution of the sheet fails: it *)
(* returns no list.                                                        *)
(***************************************************************************)
C10_MissingPartFails ==
  \A i \in 1..Len(wb.SheetNames) :
    (Attempted(i) /\ DeclaresDrawing(i) /\ ~LinkedPartsPresent(i)) => ThrewAt(i)

====
